---- MODULE Spec2Model ----
(***************************************************************************)
(* A model of news-mcp-server: the ranking functions (ranking.ts), the     *)
(* SQLite cache (storage/database.ts), the feed configuration              *)
(* (storage/config.ts), the two source adapters (sources/*.ts) and the     *)
(* tool handlers of the server (index.ts).                                 *)
(*                                                                         *)
(* Representation.                                                         *)
(*  - A JavaScript string is a TLA+ string; Len, SubSeq and \o act on it.  *)
(*  - An optional value (undefined in a FeedItem, NULL in a table row) is  *)
(*    the empty tuple <<>>, a present value v is <<v>>.                    *)
(*  - A Date is its getTime() value, a count of milliseconds.              *)
(*  - A score is a fixed-point number counted in units of 1/ScoreUnit of a *)
(*    point, so that the 0.1 and 0.05 weights and an age in hours of a     *)
(*    multiple of MsPerUnit milliseconds are exact.                        *)
(***************************************************************************)
EXTENDS Integers, Sequences, FiniteSets, TLC

VARIABLES
    now,        \* Date.now(): the wall clock, in milliseconds
    db,         \* the rows of table feed_items
    rss_feeds,  \* ConfigManager.config.rss_feeds, the in-memory registrations
    file,       \* the content of config/feeds.json
    refresh,    \* the suspended handleRefreshCache call, if any
    ret         \* what the last completed operation was given and returned

vars == <<now, db, rss_feeds, file, refresh, ret>>

(***************************************************************************)
(* Optional values.                                                        *)
(***************************************************************************)
undefined == <<>>
Some(v) == <<v>>
Has(o) == o # <<>>
Val(o) == o[1]

(***************************************************************************)
(* Strings.                                                                *)
(***************************************************************************)
UpperCase == "ABCDEFGHIJKLMNOPQRSTUVWXYZ"
LowerCase == "abcdefghijklmnopqrstuvwxyz"

\* One character of String.prototype.toLowerCase (ASCII letters).
LowerChar(c) ==
    IF \E i \in 1..Len(UpperCase) : SubSeq(UpperCase, i, i) = c
    THEN LET i == CHOOSE j \in 1..Len(UpperCase) : SubSeq(UpperCase, j, j) = c
         IN  SubSeq(LowerCase, i, i)
    ELSE c

RECURSIVE toLowerCase(_)
toLowerCase(s) ==
    IF Len(s) = 0 THEN ""
    ELSE LowerChar(SubSeq(s, 1, 1)) \o toLowerCase(SubSeq(s, 2, Len(s)))

\* String.prototype.includes: k occurs in s as a contiguous substring.
includes(s, k) ==
    \E i \in 1..(Len(s) - Len(k) + 1) : SubSeq(s, i, i + Len(k) - 1) = k

startsWith(s, k) == Len(k) <= Len(s) /\ SubSeq(s, 1, Len(k)) = k

(***************************************************************************)
(* Units.                                                                  *)
(***************************************************************************)
MsPerSecond == 1000
MsPerHour == 1000 * 60 * 60
SecondsPerDay == 24 * 60 * 60
\* Fixed-point scale of a score: one point is ScoreUnit units.
ScoreUnit == 2 * 60 * 60
\* The age that lowers the recency score by one unit.
MsPerUnit == MsPerHour \div ScoreUnit
Points(n) == n * ScoreUnit

Max(a, b) == IF a >= b THEN a ELSE b

(***************************************************************************)
(* ranking.ts: the keyword tables.  A category is its keyword list and its *)
(* weight; a table is the list of its categories in declaration order      *)
(* (the order of Object.values).                                           *)
(***************************************************************************)
tools ==
    [keywords |-> << "claude-code", "claude code", "vscode", "vs code",
                     "visual studio code", "github", "aws", "cloudflare",
                     "cursor", "ruby on rails", "rails", "copilot",
                     "typescript", "react", "node.js", "nodejs" >>,
     weight |-> 50]

aiTechniques ==
    [keywords |-> << "ai development", "prompt engineering", "llm", "agent",
                     "agents", "langchain", "openai", "anthropic", "claude",
                     "gpt", "embeddings", "rag", "fine-tuning", "ai coding",
                     "code generation", "mcp", "model context protocol" >>,
     weight |-> 30]

securityTechniques ==
    [keywords |-> << "app security", "application security", "appsec",
                     "vulnerability", "pentest", "penetration testing",
                     "exploit", "security testing", "owasp", "xss",
                     "sql injection", "csrf", "authentication",
                     "authorization", "secure coding", "security audit" >>,
     weight |-> 30]

practicalContent ==
    [keywords |-> << "how to", "tutorial", "guide", "technique",
                     "best practices", "deep dive", "case study",
                     "implementation", "walkthrough", "explained",
                     "introducing", "new feature", "update", "release" >>,
     weight |-> 20]

funding ==
    [keywords |-> << "raises", "funding", "series a", "series b", "series c",
                     "valuation", "ipo", "acquisition", "acquires",
                     "invested", "investment", "venture capital", "vc",
                     "seed round" >>,
     weight |-> -40]

genericHype ==
    [keywords |-> << "announces partnership", "strategic partnership",
                     "collaboration", "expands into", "appoints", "names",
                     "ceo", "rebrands" >>,
     weight |-> -20]

BOOST_KEYWORDS == << tools, aiTechniques, securityTechniques, practicalContent >>

PENALTY_KEYWORDS == << funding, genericHype >>

premiumSources ==
    << "hackernews", "rss:awsblog", "rss:cloudflare", "rss:github",
       "rss:tldr-ai", "rss:tldr-infosec", "rss:krebs" >>

generalSources == << "rss:techcrunch", "rss:verge" >>

(***************************************************************************)
(* ranking.ts: the four sub-scores and their sum.  `at` is the value of    *)
(* Date.now() when the score is computed.                                  *)
(***************************************************************************)
\* `${item.title} ${item.content || ''}`.toLowerCase()
ScoredText(item) ==
    toLowerCase(item.title \o " " \o
                (IF Has(item.content) THEN Val(item.content) ELSE ""))

\* keyword.toLowerCase() of every keyword of a table, computed once.
BoostLowered ==
    [i \in 1..Len(BOOST_KEYWORDS) |->
        [k \in 1..Len(BOOST_KEYWORDS[i].keywords) |->
            toLowerCase(BOOST_KEYWORDS[i].keywords[k])]]

PenaltyLowered ==
    [i \in 1..Len(PENALTY_KEYWORDS) |->
        [k \in 1..Len(PENALTY_KEYWORDS[i].keywords) |->
            toLowerCase(PENALTY_KEYWORDS[i].keywords[k])]]

\* CategoryScore without the break: every keyword that occurs adds the weight.
CategoryScoreEveryHit(text, keywords, weight) ==
    weight * Cardinality({ k \in 1..Len(keywords) : includes(text, keywords[k]) })

\* The inner loop of calculateKeywordScore: the first keyword of the
\* category that occurs in the text adds the weight and ends the loop.
CategoryScore(text, keywords, weight) ==
    IF \E k \in 1..Len(keywords) : includes(text, keywords[k])
    THEN weight
    ELSE 0

\* The outer loop over one table, from category i on.
RECURSIVE TableScore(_, _, _, _)
TableScore(text, table, lowered, i) ==
    IF i > Len(table) THEN 0
    ELSE CategoryScore(text, lowered[i], table[i].weight)
         + TableScore(text, table, lowered, i + 1)

calculateKeywordScore(item) ==
    LET text == ScoredText(item)
    IN  Points(TableScore(text, BOOST_KEYWORDS, BoostLowered, 1)
               + TableScore(text, PENALTY_KEYWORDS, PenaltyLowered, 1))

\* calculateEngagementScore with the two weights exchanged.
calculateEngagementScoreSwapped(item) ==
    (IF Has(item.points) /\ Val(item.points) # 0
     THEN (Val(item.points) * ScoreUnit) \div 20 ELSE 0)
    + (IF Has(item.comments) /\ Val(item.comments) # 0
       THEN (Val(item.comments) * ScoreUnit) \div 10 ELSE 0)

\* points * 0.1 and comments * 0.05; an absent or zero metric adds nothing.
calculateEngagementScore(item) ==
    (IF Has(item.points) /\ Val(item.points) # 0
     THEN (Val(item.points) * ScoreUnit) \div 10 ELSE 0)
    + (IF Has(item.comments) /\ Val(item.comments) # 0
       THEN (Val(item.comments) * ScoreUnit) \div 20 ELSE 0)

\* ageInHours with the age counted in minutes.
ageInMinutes(item, at) == 60 * ((at - item.published_at) \div MsPerUnit)

\* ageInHours = (Date.now() - published_at) / 3600000, in score units.
ageInHours(item, at) == (at - item.published_at) \div MsPerUnit

\* calculateRecencyScore with the age added instead of subtracted.
calculateRecencyScoreGrowing(item, at) ==
    Max(0, Points(100) + ageInHours(item, at))

calculateRecencyScore(item, at) == Max(0, Points(100) - ageInHours(item, at))

calculateSourceScore(item) ==
    LET source == toLowerCase(item.source)
    IN  IF \E i \in 1..Len(premiumSources) : includes(source, premiumSources[i])
        THEN Points(20)
        ELSE IF \E i \in 1..Len(generalSources) :
                    includes(source, generalSources[i])
             THEN Points(-10)
             ELSE 0

totalScore(item, at) ==
    calculateKeywordScore(item) + calculateEngagementScore(item)
    + calculateRecencyScore(item, at) + calculateSourceScore(item)

\* calculateRankScore without the final Math.max(0, ...).
calculateRankScoreUnclamped(item, at) == totalScore(item, at)

calculateRankScore(item, at) == Max(0, totalScore(item, at))

(***************************************************************************)
(* The clock.  Time is counted from an origin Epoch0 milliseconds before   *)
(* the first state, late enough for an item to be older than the recency   *)
(* window and than the retention window.                                   *)
(***************************************************************************)
Epoch0 == 10 * SecondsPerDay * MsPerSecond

NoCall == [op |-> "none"]
NoRefresh == [pc |-> "idle"]

(***************************************************************************)
(* The ranking functions on their own: calculateRankScore is applied to    *)
(* items drawn from RankItems while the clock runs.                        *)
(***************************************************************************)
\* One phrase per keyword category; several hold two keywords of it.
Phrases ==
    << " GitHub Copilot", " LLM agents", " XSS exploit", " tutorial",
       " raises funding", " appoints CEO" >>

\* The title made of the phrases of the categories in S.
RECURSIVE TitleOf(_, _)
TitleOf(S, i) ==
    IF i > Len(Phrases) THEN ""
    ELSE (IF i \in S THEN Phrases[i] ELSE "") \o TitleOf(S, i + 1)

RankTitles ==
    { "Daily" \o TitleOf(S, 1) : S \in SUBSET (1..Len(Phrases)) }
    \cup { "New AI agent released", "Acme raises Series B" }

RankContents == { undefined, Some(""), Some("A guide to Rails") }

\* upvotes and comments: absent, zero, present.
RankMetrics == { <<undefined, undefined>>, <<Some(0), Some(0)>>,
                 <<Some(200), Some(50)>>, <<Some(3), undefined>> }

\* Ages at Epoch0: 101 h, 100 h, 1 h, half a second, none, and one hour
\* in the future.
RankPublished ==
    { Epoch0 - 101 * MsPerHour, Epoch0 - 100 * MsPerHour, Epoch0 - MsPerHour,
      Epoch0 - MsPerUnit, Epoch0, Epoch0 + MsPerHour }

RankSources == { "hackernews", "rss:techcrunch", "rss:TechCrunch-UK", "rss:blog" }

RankItem(src, t, c, m, p) ==
    [id |-> "x", source |-> src, title |-> t, url |-> "", content |-> c,
     author |-> undefined, points |-> m[1], comments |-> m[2],
     published_at |-> p, cached_at |-> Epoch0, rank_score |-> undefined]

\* Every title without content at three ages from two sources, and three
\* titles with every content, engagement, age and source.
RankItems ==
    { RankItem(src, t, undefined, m, p) :
        src \in { "hackernews", "rss:blog" }, t \in RankTitles,
        m \in { <<undefined, undefined>>, <<Some(200), Some(50)>> },
        p \in { Epoch0 - 101 * MsPerHour, Epoch0 - MsPerHour, Epoch0 } }
    \cup
    { RankItem(src, t, c, m, p) :
        src \in RankSources,
        t \in { "Daily", "New AI agent released", "Acme raises Series B" },
        c \in RankContents, m \in RankMetrics, p \in RankPublished }

\* The clock readings of this specification.
RankInstants == { Epoch0, Epoch0 + MsPerUnit, Epoch0 + MsPerHour }

InitRank ==
    /\ now = Epoch0
    /\ db = {}
    /\ rss_feeds = << >>
    /\ file = << >>
    /\ refresh = NoRefresh
    /\ \E item \in RankItems : ret = [op |-> "item", item |-> item]

\* A call of calculateRankScore(item) at the current time.
RankScore ==
    /\ ret' = [op |-> "calculateRankScore", item |-> ret.item, at |-> now,
               value |-> calculateRankScore(ret.item, now)]
    /\ UNCHANGED <<now, db, rss_feeds, file, refresh>>

\* Time passes.
RankTick(t) ==
    /\ t > now
    /\ now' = t
    /\ UNCHANGED <<db, rss_feeds, file, refresh, ret>>

NextRank ==
    \/ RankScore
    \/ \E t \in RankInstants : RankTick(t)

SpecRank == InitRank /\ [][NextRank]_vars

(***************************************************************************)
(* Properties of the ranking functions (checked under SpecRank).           *)
(***************************************************************************)
Scored == ret.op = "calculateRankScore"

NoEngagement(item) ==
    /\ ~Has(item.points) \/ Val(item.points) = 0
    /\ ~Has(item.comments) \/ Val(item.comments) = 0

StatedEngagement(item) ==
    (IF Has(item.points) THEN Points(Val(item.points)) \div 10 ELSE 0)
    + (IF Has(item.comments) THEN Points(Val(item.comments)) \div 20 ELSE 0)

StatedRecency(item, at) ==
    LET age == (at - item.published_at) \div MsPerUnit
    IN  IF age > Points(100) THEN 0 ELSE Points(100) - age

StatedSum(item, at) ==
    calculateKeywordScore(item) + StatedEngagement(item)
    + StatedRecency(item, at) + calculateSourceScore(item)

IsAcme(item) ==
    /\ item.title = "Acme raises Series B"
    /\ item.source = "rss:techcrunch"
    /\ ~Has(item.content) \/ Val(item.content) = ""
    /\ NoEngagement(item)

\* C7: the score is max(0, keyword + engagement + recency + source) with
\* engagement = 0.1 * points + 0.05 * comments (a missing metric is 0) and
\* recency = max(0, 100 - age in hours): 0 exactly when the sum is negative
\* (an item 100 hours old or older, without engagement, with only the funding
\* penalty and a general source scores 0) and the sum itself otherwise
\* ('Acme raises Series B' from rss:techcrunch published now scores 50).
C7_ScoreIsClampedSum ==
    Scored =>
        LET item == ret.item
            sum == StatedSum(item, ret.at)
        IN  /\ ret.value = (IF sum < 0 THEN 0 ELSE sum)
            /\ (ret.value = 0) = (sum <= 0)
            /\ ( /\ ret.at - item.published_at >= 100 * MsPerHour
                 /\ NoEngagement(item)
                 /\ calculateKeywordScore(item) = Points(-40)
                 /\ calculateSourceScore(item) = Points(-10) )
               => ret.value = 0
            /\ (IsAcme(item) /\ item.published_at = ret.at)
               => ret.value = Points(50)

\* The Acme example was scored at its publication time and got 50.
C7_Witness ==
    /\ Scored
    /\ IsAcme(ret.item)
    /\ ret.item.published_at = ret.at
    /\ ret.value = Points(50)

Categories ==
    { tools, aiTechniques, securityTechniques, practicalContent,
      funding, genericHype }

\* Some keyword of the category occurs in the text.
Occurs(text, category) ==
    \E k \in 1..Len(category.keywords) : includes(text, category.keywords[k])

RECURSIVE SumOfWeights(_)
SumOfWeights(S) ==
    IF S = {} THEN 0
    ELSE LET c == CHOOSE x \in S : TRUE
         IN  c.weight + SumOfWeights(S \ {c})

\* C8: the keyword sub-score is the sum, over the six categories, of the
\* weight of each category with at least one keyword in the lower-cased text
\* 'title + space + content': once per category, categories adding up.
C8_KeywordScorePerCategory ==
    Scored =>
        LET item == ret.item
            text == toLowerCase(item.title \o " "
                        \o (IF Has(item.content) THEN Val(item.content) ELSE ""))
        IN  calculateKeywordScore(item)
              = Points(SumOfWeights({ c \in Categories : Occurs(text, c) }))

\* A scored title with two keywords of the tools category and two of the
\* funding category: 50 - 40.
C8_Witness ==
    /\ Scored
    /\ ret.item.title = "Daily GitHub Copilot raises funding"
    /\ ~Has(ret.item.content)
    /\ calculateKeywordScore(ret.item) = Points(10)

IsAgentExample(item, at) ==
    /\ item.title = "New AI agent released"
    /\ item.content = Some("")
    /\ item.points = Some(200)
    /\ item.comments = Some(50)
    /\ item.source = "hackernews"
    /\ at - item.published_at = MsPerHour

\* C9 as stated: the example item gets a keyword sub-score of +30 and a total
\* of about 171.5 (taken as within one point of it).
C9_AsStated ==
    (Scored /\ IsAgentExample(ret.item, ret.at)) =>
        /\ calculateKeywordScore(ret.item) = Points(30)
        /\ ret.value >= Points(343) \div 2 - Points(1)
        /\ ret.value <= Points(343) \div 2 + Points(1)

\* C9 amended: the example item gets a keyword sub-score of +50 (AI techniques
\* through 'agent', +30, and practical content through 'release' in
\* 'released', +20) and a total of 191.5 = 50 + 22.5 + 99 + 20.
C9_AgentExampleScore ==
    (Scored /\ IsAgentExample(ret.item, ret.at)) =>
        /\ calculateKeywordScore(ret.item) = Points(50)
        /\ Occurs(ScoredText(ret.item), aiTechniques)
        /\ Occurs(ScoredText(ret.item), practicalContent)
        /\ calculateEngagementScore(ret.item) = Points(45) \div 2
        /\ calculateRecencyScore(ret.item, ret.at) = Points(99)
        /\ calculateSourceScore(ret.item) = Points(20)
        /\ ret.value = Points(383) \div 2

\* The example item was scored one hour after its publication.
C9_Witness == Scored /\ IsAgentExample(ret.item, ret.at) /\ ret.value > 0

(***************************************************************************)
(* storage/database.ts: table feed_items as the set of its rows.  A row    *)
(* holds its two dates as whole seconds, NULL as <<>>.                     *)
(***************************************************************************)
\* Math.floor(date.getTime() / 1000)
Seconds(ms) == ms \div MsPerSecond

\* new Date(seconds * 1000)
DateOf(seconds) == seconds * MsPerSecond

\* value || null for an optional string or number: '' and 0 become NULL.
OrNull(o, falsy) == IF Has(o) /\ Val(o) # falsy THEN o ELSE undefined

\* The values saveFeedItem binds to the INSERT statement.
RowOf(item) ==
    [id |-> item.id,
     source |-> item.source,
     title |-> item.title,
     url |-> item.url,
     content |-> OrNull(item.content, ""),
     author |-> OrNull(item.author, ""),
     points |-> OrNull(item.points, 0),
     comments |-> OrNull(item.comments, 0),
     published_at |-> Seconds(item.published_at),
     cached_at |-> Seconds(item.cached_at),
     rank_score |-> IF Has(item.rank_score) THEN Val(item.rank_score) ELSE 0]

\* INSERT OR IGNORE: a row whose id is already stored is left as it is.
InsertOrIgnore(rows, item) ==
    IF \E r \in rows : r.id = item.id THEN rows ELSE rows \cup { RowOf(item) }

\* INSERT OR REPLACE on the primary key id.
Upsert(rows, item) ==
    { r \in rows : r.id # item.id } \cup { RowOf(item) }

\* The loop of saveFeedItems over items[i..].
RECURSIVE UpsertAll(_, _, _)
UpsertAll(rows, items, i) ==
    IF i > Len(items) THEN rows
    ELSE UpsertAll(Upsert(rows, items[i]), items, i + 1)

\* A batch without a transaction: the writes before the failing one stay.
TransactionPartial(rows, items, failAt) ==
    IF failAt = 0 THEN UpsertAll(rows, items, 1)
    ELSE UpsertAll(rows, SubSeq(items, 1, failAt - 1), 1)

\* db.transaction(...)(items): all the writes, or none when the write of
\* item number failAt throws (failAt = 0: no write throws).
Transaction(rows, items, failAt) ==
    IF failAt = 0 THEN UpsertAll(rows, items, 1) ELSE rows

\* JavaScript truthiness of an optional string or number.
Truthy(o, falsy) == Has(o) /\ Val(o) # falsy

\* The WHERE clause getFeedItems builds.
Selected(rows, options) ==
    { r \in rows :
        /\ Truthy(options.source, "") => r.source = Val(options.source)
        /\ Has(options.since) => r.published_at >= Seconds(Val(options.since)) }

\* ORDER BY rank_score DESC alone.
PrecedesByRankOnly(a, b) == a.rank_score > b.rank_score

\* ORDER BY rank_score DESC, published_at DESC: a must come before b.
Precedes(a, b) ==
    \/ a.rank_score > b.rank_score
    \/ a.rank_score = b.rank_score /\ a.published_at > b.published_at

\* The orders in which the rows S may come back: rows that the ORDER BY
\* clause does not tell apart come in any order.
RECURSIVE OrderBy(_)
OrderBy(S) ==
    IF S = {} THEN { << >> }
    ELSE UNION { { <<m>> \o t : t \in OrderBy(S \ {m}) } :
                 m \in { r \in S : \A o \in S : ~Precedes(o, r) } }

\* LIMIT ?, added only for a truthy limit; a negative LIMIT is no limit.
Limit(seq, limit) ==
    IF Truthy(limit, 0) /\ Val(limit) >= 0 /\ Val(limit) < Len(seq)
    THEN SubSeq(seq, 1, Val(limit))
    ELSE seq

\* rows.map(row => ({...})): the FeedItem made of a row.
ItemOf(row) ==
    [id |-> row.id, source |-> row.source, title |-> row.title,
     url |-> row.url, content |-> row.content, author |-> row.author,
     points |-> row.points, comments |-> row.comments,
     published_at |-> DateOf(row.published_at),
     cached_at |-> DateOf(row.cached_at),
     rank_score |-> Some(row.rank_score)]

ItemsOf(seq) == [i \in 1..Len(seq) |-> ItemOf(seq[i])]

\* What getFeedItems(options) may return.
getFeedItems(rows, options) ==
    { ItemsOf(Limit(seq, options.limit)) : seq \in OrderBy(Selected(rows, options)) }

\* The orders of the elements of a set.
RECURSIVE Orders(_)
Orders(S) ==
    IF S = {} THEN { << >> }
    ELSE UNION { { <<m>> \o t : t \in Orders(S \ {m}) } : m \in S }

\* SELECT DISTINCT source FROM feed_items.
getAllSources(rows) == Orders({ r.source : r \in rows })

\* text LIKE pattern in SQLite, from position i of the pattern and j of the
\* text: % stands for any run of characters, _ for any one character, and
\* ASCII letters match whatever their case.  No escape character is set.
RECURSIVE LikeFrom(_, _, _, _)
LikeFrom(pattern, i, text, j) ==
    IF i > Len(pattern) THEN j > Len(text)
    ELSE IF SubSeq(pattern, i, i) = "%"
         THEN \E k \in j..(Len(text) + 1) : LikeFrom(pattern, i + 1, text, k)
         ELSE /\ j <= Len(text)
              /\ \/ SubSeq(pattern, i, i) = "_"
                 \/ LowerChar(SubSeq(pattern, i, i))
                      = LowerChar(SubSeq(text, j, j))
              /\ LikeFrom(pattern, i + 1, text, j + 1)

\* column LIKE ?, which is NULL (not true) on a NULL column.
Like(column, pattern) == Has(column) /\ LikeFrom(pattern, 1, Val(column), 1)

\* limit: number = 50
DefaultSearchLimit == 50

\* LIMIT ? with a number always bound: a negative LIMIT is no limit.
LimitTo(seq, limit) ==
    IF limit >= 0 /\ limit < Len(seq) THEN SubSeq(seq, 1, limit) ELSE seq

\* The rows of WHERE title LIKE ? OR content LIKE ?, with `%${query}%`.
Found(rows, query) ==
    LET searchQuery == "%" \o query \o "%"
    IN  { r \in rows :
            Like(Some(r.title), searchQuery) \/ Like(r.content, searchQuery) }

\* What searchFeedItems(query, limit) may return.
searchFeedItems(rows, query, limit) ==
    { ItemsOf(LimitTo(seq, IF Has(limit) THEN Val(limit) ELSE DefaultSearchLimit)) :
        seq \in OrderBy(Found(rows, query)) }

\* daysToKeep: number = 7
DefaultDaysToKeep == 7

cutoffDate(daysToKeep, at) ==
    Seconds(at)
    - (IF Has(daysToKeep) THEN Val(daysToKeep) ELSE DefaultDaysToKeep)
      * SecondsPerDay

\* DELETE ... WHERE published_at < ?
DeletedByPublished(rows, daysToKeep, at) ==
    { r \in rows : r.published_at < cutoffDate(daysToKeep, at) }

\* The rows DELETE FROM feed_items WHERE cached_at < ? removes.
Deleted(rows, daysToKeep, at) ==
    { r \in rows : r.cached_at < cutoffDate(daysToKeep, at) }

(***************************************************************************)
(* FeedDatabase on its own: its public methods are called with items and   *)
(* arguments drawn from the sets below while the clock runs.               *)
(***************************************************************************)
DbIds == { "hn:1", "hn:2", "rss:blog:a" }

Hour == MsPerHour
Day == SecondsPerDay * MsPerSecond

\* What two writes of an id differ in: every field but the id.
\*   1: ranked 2, published 2 h ago, cached now
\*   2: ranked 2, published half a second after 1 (within the same second),
\*      cached a day ago
\*   3: ranked 2, published in half a second, cached 8 days ago; its empty
\*      strings and zero counts are stored as NULL
\*   4: not ranked, published 8 days ago, cached half a second less than
\*      7 days ago
DbVariants ==
    << [source |-> "hackernews", title |-> "Alpha", url |-> "http://a",
        content |-> undefined, author |-> Some("ann"),
        points |-> Some(5), comments |-> Some(2),
        published_at |-> Epoch0 - 2 * Hour, cached_at |-> Epoch0,
        rank_score |-> Some(Points(2))],
       [source |-> "rss:blog", title |-> "Beta", url |-> "http://b",
        content |-> Some("100% new_feature"), author |-> undefined,
        points |-> undefined, comments |-> undefined,
        published_at |-> Epoch0 - 2 * Hour + MsPerUnit,
        cached_at |-> Epoch0 - Day,
        rank_score |-> Some(Points(2))],
       [source |-> "hackernews", title |-> "Gamma", url |-> "",
        content |-> Some(""), author |-> Some(""),
        points |-> Some(0), comments |-> Some(0),
        published_at |-> Epoch0 + MsPerUnit, cached_at |-> Epoch0 - 8 * Day,
        rank_score |-> Some(Points(2))],
       [source |-> "rss:news", title |-> "Omega", url |-> "http://d",
        content |-> Some("body"), author |-> undefined,
        points |-> Some(1), comments |-> undefined,
        published_at |-> Epoch0 - 8 * Day,
        cached_at |-> Epoch0 - 7 * Day + MsPerUnit,
        rank_score |-> undefined] >>

DbItem(id, v) ==
    [id |-> id, source |-> v.source, title |-> v.title, url |-> v.url,
     content |-> v.content, author |-> v.author, points |-> v.points,
     comments |-> v.comments, published_at |-> v.published_at,
     cached_at |-> v.cached_at, rank_score |-> v.rank_score]

DbItems == { DbItem(id, DbVariants[k]) : id \in DbIds, k \in 1..Len(DbVariants) }

\* The longest batch given to saveFeedItems, and the items it is made of.
MaxBatch == 2
BatchItems ==
    { DbItem("hn:1", DbVariants[1]), DbItem("hn:1", DbVariants[2]),
      DbItem("hn:2", DbVariants[1]) }
Batches == UNION { [1..n -> BatchItems] : n \in 0..MaxBatch }

DbSources == { undefined, Some("hackernews"), Some("rss:none") }
DbSinces ==
    { undefined, Some(Epoch0 - 2 * Hour + MsPerUnit), Some(Epoch0 + MsPerSecond) }
DbLimits == { undefined, Some(0), Some(2) }
DbOptions ==
    { [source |-> src, since |-> t, limit |-> n] :
        src \in DbSources, t \in DbSinces, n \in DbLimits }

DbDays == { undefined, Some(0), Some(1) }

\* What searchFeedItems is called with.
DbQueries == { "ALPHA", "%", "_" }
DbSearchLimits == { undefined, Some(1) }

DbInstants == { Epoch0, Epoch0 + MsPerSecond + MsPerUnit }

InitDb ==
    /\ now = Epoch0
    /\ db = {}
    /\ rss_feeds = << >>
    /\ file = << >>
    /\ refresh = NoRefresh
    /\ ret = NoCall

\* saveFeedItem(item); the statement may fail (I/O), and then throws.
DbSaveFeedItem(item, fails) ==
    /\ db' = IF fails THEN db ELSE Upsert(db, item)
    /\ ret' = [op |-> "saveFeedItem", item |-> item, before |-> db,
               status |-> IF fails THEN "throws" ELSE "ok"]
    /\ UNCHANGED <<now, rss_feeds, file, refresh>>

\* saveFeedItems(items); the write of item number failAt fails (0: none).
DbSaveFeedItems(items, failAt) ==
    /\ db' = Transaction(db, items, failAt)
    /\ ret' = [op |-> "saveFeedItems", items |-> items, before |-> db,
               status |-> IF failAt = 0 THEN "ok" ELSE "throws"]
    /\ UNCHANGED <<now, rss_feeds, file, refresh>>

DbGetFeedItems(options) ==
    /\ \E value \in getFeedItems(db, options) :
          ret' = [op |-> "getFeedItems", options |-> options, value |-> value]
    /\ UNCHANGED <<now, db, rss_feeds, file, refresh>>

DbSearchFeedItems(query, limit) ==
    /\ \E value \in searchFeedItems(db, query, limit) :
          ret' = [op |-> "searchFeedItems", query |-> query, limit |-> limit,
                  value |-> value]
    /\ UNCHANGED <<now, db, rss_feeds, file, refresh>>

DbGetAllSources ==
    /\ \E value \in getAllSources(db) :
          ret' = [op |-> "getAllSources", value |-> value]
    /\ UNCHANGED <<now, db, rss_feeds, file, refresh>>

\* clearOldItems(daysToKeep): deletes, and returns result.changes.
DbClearOldItems(daysToKeep) ==
    /\ db' = db \ Deleted(db, daysToKeep, now)
    /\ ret' = [op |-> "clearOldItems", daysToKeep |-> daysToKeep, at |-> now,
               before |-> db,
               value |-> Cardinality(Deleted(db, daysToKeep, now))]
    /\ UNCHANGED <<now, rss_feeds, file, refresh>>

DbTick(t) ==
    /\ t > now
    /\ now' = t
    /\ UNCHANGED <<db, rss_feeds, file, refresh, ret>>

NextDb ==
    \/ \E item \in DbItems, fails \in BOOLEAN : DbSaveFeedItem(item, fails)
    \/ \E items \in Batches, failAt \in 0..MaxBatch :
          failAt <= Len(items) /\ DbSaveFeedItems(items, failAt)
    \/ \E options \in DbOptions : DbGetFeedItems(options)
    \/ \E query \in DbQueries, limit \in DbSearchLimits :
          DbSearchFeedItems(query, limit)
    \/ DbGetAllSources
    \/ \E daysToKeep \in DbDays : DbClearOldItems(daysToKeep)
    \/ \E t \in DbInstants : DbTick(t)

SpecDb == InitDb /\ [][NextDb]_vars

(***************************************************************************)
(* Properties of FeedDatabase (checked under SpecDb).                      *)
(***************************************************************************)
RowsWithId(rows, id) == { r \in rows : r.id = id }

\* The last item of a batch that carries the id.
LastWrite(items, id) ==
    items[CHOOSE i \in 1..Len(items) :
            /\ items[i].id = id
            /\ \A j \in (i + 1)..Len(items) : items[j].id # id]

NoDuplicates(seq) ==
    \A i, j \in 1..Len(seq) : seq[i] = seq[j] => i = j

\* C1: the cache holds at most one record per id; a write of a stored id
\* leaves the number of records unchanged and the stored record equal to
\* that write, nothing of the earlier record remaining; getAllSources lists
\* no source twice.
C1_OneRecordPerId ==
    /\ \A r1, r2 \in db : r1.id = r2.id => r1 = r2
    /\ (ret.op = "saveFeedItem" /\ ret.status = "ok") =>
          /\ RowsWithId(db, ret.item.id) = { RowOf(ret.item) }
          /\ db \ RowsWithId(db, ret.item.id)
               = ret.before \ RowsWithId(ret.before, ret.item.id)
          /\ RowsWithId(ret.before, ret.item.id) # {}
               => Cardinality(db) = Cardinality(ret.before)
    /\ (ret.op = "saveFeedItems" /\ ret.status = "ok") =>
          LET ids == { ret.items[i].id : i \in 1..Len(ret.items) }
          IN  /\ \A id \in ids :
                    RowsWithId(db, id) = { RowOf(LastWrite(ret.items, id)) }
              /\ Cardinality(db)
                   = Cardinality({ r.id : r \in ret.before } \cup ids)
    /\ ret.op = "getAllSources" =>
          /\ NoDuplicates(ret.value)
          /\ { ret.value[i] : i \in 1..Len(ret.value) } = { r.source : r \in db }

\* An id stored with one title, content, source and score was written again
\* with another title, content, source and score.
C1_Witness ==
    /\ ret.op = "saveFeedItem"
    /\ ret.status = "ok"
    /\ \E old \in RowsWithId(ret.before, ret.item.id) :
          /\ old.title # ret.item.title
          /\ old.source # ret.item.source
          /\ old.content # OrNull(ret.item.content, "")
          /\ old.rank_score # RowOf(ret.item).rank_score
    /\ Cardinality(db) >= 2

\* b does not have to come before a.
InOrder(a, b) ==
    \/ Val(a.rank_score) > Val(b.rank_score)
    \/ /\ Val(a.rank_score) = Val(b.rank_score)
       /\ a.published_at >= b.published_at

C10_ClearOldItems ==
    ret.op = "clearOldItems" =>
        LET days == IF Has(ret.daysToKeep) THEN Val(ret.daysToKeep) ELSE 7
            old(r) == r.cached_at < Seconds(ret.at) - days * 24 * 60 * 60
        IN  /\ db = { r \in ret.before : ~old(r) }
            /\ ret.value = Cardinality({ r \in ret.before : old(r) })
            /\ ret.value = Cardinality(ret.before) - Cardinality(db)

\* clearOldItems() deleted a record published within the window and kept a
\* record published before it.
C10_Witness ==
    /\ ret.op = "clearOldItems"
    /\ ~Has(ret.daysToKeep)
    /\ ret.value >= 1
    /\ \E r \in ret.before \ db :
          r.published_at >= Seconds(ret.at) - 7 * SecondsPerDay
    /\ \E r \in db : r.published_at < Seconds(ret.at) - 7 * SecondsPerDay

(***************************************************************************)
(* sources/rss.ts and sources/hackernews.ts: what an adapter makes of the  *)
(* upstream answer.  `at` is the clock when the answer is processed.       *)
(***************************************************************************)
\* a || b || ... over optional strings: the first present, non-empty one.
RECURSIVE FirstTruthy(_, _)
FirstTruthy(options, i) ==
    IF i > Len(options) THEN undefined
    ELSE IF Truthy(options[i], "") THEN options[i]
    ELSE FirstTruthy(options, i + 1)

\* `${value}` of an optional string.
Interpolated(o) == IF Has(o) THEN Val(o) ELSE "undefined"

\* The index of the first c in s at or after i, or 0.
RECURSIVE IndexOf(_, _, _)
IndexOf(s, c, i) ==
    IF i > Len(s) THEN 0
    ELSE IF SubSeq(s, i, i) = c THEN i
    ELSE IndexOf(s, c, i + 1)

\* html.replace(/<[^>]*>/g, '')
RECURSIVE StripTags(_)
StripTags(s) ==
    IF Len(s) = 0 THEN ""
    ELSE IF SubSeq(s, 1, 1) = "<" /\ IndexOf(s, ">", 2) # 0
    THEN StripTags(SubSeq(s, IndexOf(s, ">", 2) + 1, Len(s)))
    ELSE SubSeq(s, 1, 1) \o StripTags(SubSeq(s, 2, Len(s)))

\* s.replace(/pattern/g, replacement) for a literal pattern.
RECURSIVE ReplaceAll(_, _, _)
ReplaceAll(s, pattern, replacement) ==
    IF Len(s) = 0 THEN ""
    ELSE IF startsWith(s, pattern)
    THEN replacement \o ReplaceAll(SubSeq(s, Len(pattern) + 1, Len(s)),
                                   pattern, replacement)
    ELSE SubSeq(s, 1, 1) \o ReplaceAll(SubSeq(s, 2, Len(s)), pattern, replacement)

IsSpace(c) == c \in { " ", "\t", "\n", "\r" }

RECURSIVE TrimStart(_)
TrimStart(s) ==
    IF Len(s) > 0 /\ IsSpace(SubSeq(s, 1, 1))
    THEN TrimStart(SubSeq(s, 2, Len(s))) ELSE s

RECURSIVE TrimEnd(_)
TrimEnd(s) ==
    IF Len(s) > 0 /\ IsSpace(SubSeq(s, Len(s), Len(s)))
    THEN TrimEnd(SubSeq(s, 1, Len(s) - 1)) ELSE s

stripHtml(html) ==
    TrimEnd(TrimStart(
        ReplaceAll(ReplaceAll(ReplaceAll(ReplaceAll(ReplaceAll(
            StripTags(html),
            "&nbsp;", " "), "&amp;", "&"), "&lt;", "<"), "&gt;", ">"),
            "&quot;", "\"")))

\* The item count asked of each adapter by handleRefreshCache.
HnFetchLimit == 30
RssFetchLimit == 50

\* array.slice(0, limit)
Slice(seq, limit) == SubSeq(seq, 1, IF Len(seq) < limit THEN Len(seq) ELSE limit)

\* The FeedItem RSSFeedSource.fetchFeed makes of one parsed entry.
RssItem(name, entry, at) ==
    LET content == FirstTruthy(<<entry.contentEncoded, entry.content,
                                 entry.description>>, 1)
        unscored ==
          [id |-> "rss:" \o name \o ":"
                   \o Interpolated(FirstTruthy(<<entry.guid, entry.link,
                                                 entry.title>>, 1)),
           source |-> "rss:" \o name,
           title |-> IF Truthy(entry.title, "") THEN Val(entry.title)
                     ELSE "Untitled",
           url |-> IF Truthy(entry.link, "") THEN Val(entry.link) ELSE "",
           content |-> Some(stripHtml(IF Has(content) THEN Val(content) ELSE "")),
           author |-> FirstTruthy(<<entry.creator, entry.author>>, 1),
           points |-> undefined,
           comments |-> undefined,
           published_at |-> IF Has(entry.pubDate) THEN Val(entry.pubDate) ELSE at,
           cached_at |-> at,
           rank_score |-> undefined]
    IN  [unscored EXCEPT !.rank_score = Some(calculateRankScore(unscored, at))]

\* RSSFeedSource.fetchFeed(limit) on a parsed feed.
RssFetchFeed(name, entries, limit, at) ==
    LET kept == Slice(entries, limit)
    IN  [i \in 1..Len(kept) |-> RssItem(name, kept[i], at)]

\* The FeedItem HackerNewsSource.fetchFeed makes of one story.
HnItem(story, at) ==
    LET unscored ==
          [id |-> "hn:" \o story.id,
           source |-> "hackernews",
           title |-> story.title,
           url |-> IF Truthy(story.url, "") THEN Val(story.url)
                   ELSE "https://news.ycombinator.com/item?id=" \o story.id,
           content |-> story.text,
           author |-> Some(story.by),
           points |-> Some(story.score),
           comments |-> Some(story.descendants),
           published_at |-> DateOf(story.time),
           cached_at |-> at,
           rank_score |-> undefined]
    IN  [unscored EXCEPT !.rank_score = Some(calculateRankScore(unscored, at))]

\* HackerNewsSource.fetchFeed(limit) on the answers of fetchStory for the
\* top story ids: an answer is a story, or null (<<>>) and then dropped.
HnFetchFeed(answers, limit, at) ==
    LET kept == SelectSeq(Slice(answers, limit), Has)
    IN  [i \in 1..Len(kept) |-> HnItem(Val(kept[i]), at)]

(***************************************************************************)
(* storage/config.ts: the registrations, a list of [name, url] records.    *)
(***************************************************************************)
\* No check at all.
existsNever(feeds, url) == FALSE

\* this.config.rss_feeds.some(f => f.url === feed.url)
exists(feeds, url) == \E i \in 1..Len(feeds) : feeds[i].url = url

\* A filter that keeps nothing.
WithoutAny(feeds, name) == << >>

\* this.config.rss_feeds.filter(f => f.name !== name)
WithoutName(feeds, name) == SelectSeq(feeds, LAMBDA f : f.name # name)

\* A filter that keeps every registration.
MatchingAll(feeds, source) == feeds

\* rssFeeds.filter(f => `rss:${f.name}` === source)
Matching(feeds, source) == SelectSeq(feeds, LAMBDA f : "rss:" \o f.name = source)

(***************************************************************************)
(* index.ts: handleRefreshCache.  The call is suspended at each await of   *)
(* an adapter; what runs between two awaits is one step.  The result lines *)
(* are records: [kind |-> "refreshed", name, count] for `Refreshed ...: n  *)
(* items`, [kind |-> "failed", name, error] for `Failed to refresh ...`.   *)
(***************************************************************************)
Refreshed(name, count) == [kind |-> "refreshed", name |-> name, count |-> count]
Failed(name, error) == [kind |-> "failed", name |-> name, error |-> error]

\* The call returns its result lines.
Returns(r) ==
    [op |-> "refresh_cache", source |-> r.source, status |-> "ok",
     results |-> r.results, feeds |-> r.feeds]

\* The call throws `Failed to refresh cache: ...`.
Throws(r, name, error) ==
    [op |-> "refresh_cache", source |-> r.source, status |-> "throws",
     from |-> name, error |-> error, results |-> r.results, feeds |-> r.feeds]

\* `if (!source || source.startsWith('rss:'))` and the head of the loop:
\* the call is suspended on the first registration, or is over.
\* Without a selector the array looped over is config.rss_feeds itself.
EnterRssLoop(r, feeds) ==
    IF ~Truthy(r.source, "") \/ startsWith(Val(r.source), "rss:")
    THEN LET feedsToRefresh ==
               IF Truthy(r.source, "") THEN Matching(feeds, Val(r.source))
               ELSE feeds
             entered == [r EXCEPT !.feeds = feedsToRefresh,
                                  !.aliased = ~Truthy(r.source, ""),
                                  !.idx = 1]
         IN  IF Len(feedsToRefresh) >= 1
             THEN [entered EXCEPT !.pc = "rss"]
             ELSE [entered EXCEPT !.pc = "done"]
    ELSE [r EXCEPT !.pc = "done"]

\* The loop goes on to the next registration of the array, or is over.
NextFeed(r) ==
    IF r.idx + 1 <= Len(r.feeds)
    THEN [r EXCEPT !.idx = r.idx + 1]
    ELSE [r EXCEPT !.pc = "done"]

\* The catch clause of the loop rethrowing instead of recording the failure.
RssCatchRethrows(r, name, error) ==
    [r EXCEPT !.pc = "thrown", !.from = name, !.error = error]

\* catch (error) { results.push(`Failed to refresh ${feed.name}: ${error}`) }
RssCatch(r, name, error) ==
    NextFeed([r EXCEPT !.results = Append(r.results, Failed(name, error))])

\* The source tags whose fetch the call has issued so far: each fetch is
\* awaited before the next statement runs, Hacker News first.
Started(r) ==
    IF r.pc = "hn" THEN { "hackernews" }
    ELSE IF r.pc = "rss"
    THEN (IF Truthy(r.source, "") THEN {} ELSE { "hackernews" })
         \cup { "rss:" \o r.feeds[i].name : i \in 1..r.idx }
    ELSE {}

\* The call as it starts: `const { source } = args; const results = []`.
NewRefresh(source) ==
    [pc |-> "start", source |-> source, results |-> << >>, feeds |-> << >>,
     aliased |-> FALSE, idx |-> 0, from |-> "", error |-> ""]

(***************************************************************************)
(* The server: the tool handlers of index.ts over the cache and the        *)
(* configuration, with the upstream answers and the clock as environment.  *)
(***************************************************************************)
FeedNames == { "blog", "techcrunch" }
FeedUrls == { "http://u1", "http://u2" }

\* The most registrations add_rss_feed is given room for.
MaxFeeds == 2

\* What refresh_cache is called with.
Selectors == { undefined, Some("hackernews"), Some("rss:blog"), Some("all") }

\* The stories the item tracker may serve, and the longest list of answers.
HnStories ==
    { [id |-> "1", title |-> "Show HN: LLM agents tutorial", url |-> undefined,
       text |-> undefined, by |-> "pg", time |-> Seconds(Epoch0 - MsPerHour),
       score |-> 200, descendants |-> 50] }
MaxStories == 1
HnAnswers ==
    UNION { [1..n -> { Some(st) : st \in HnStories } \cup { undefined }] :
            n \in 0..MaxStories }

\* The entries a feed may hold, and the longest feed.
NoEntry ==
    [guid |-> undefined, link |-> undefined, title |-> undefined,
     pubDate |-> undefined, contentEncoded |-> undefined, content |-> undefined,
     description |-> undefined, creator |-> undefined, author |-> undefined]
RssEntries ==
    { [NoEntry EXCEPT !.guid = Some("g1"), !.link = Some("http://x/1"),
                      !.title = Some("Acme raises Series B"),
                      !.pubDate = Some(Epoch0 - 101 * MsPerHour),
                      !.description = Some("<p>Funding &amp; more</p>"),
                      !.author = Some("eve")] }
MaxEntries == 1
RssAnswers == UNION { [1..n -> RssEntries] : n \in 0..MaxEntries }

Instants == { Epoch0, Epoch0 + MsPerHour }

\* The clock readings of the server that is left running for days.
ServeInstants == { Epoch0, Epoch0 + 8 * Day }

\* What hnSource.fetchFeed(30) and rssSource.fetchFeed(50) resolve to, for
\* each answer of the upstream and each time of the fetch.
HnFetched ==
    { [answers |-> answers, at |-> at,
       items |-> HnFetchFeed(answers, HnFetchLimit, at)] :
      answers \in HnAnswers, at \in Instants \cup ServeInstants }
RssFetched ==
    { [name |-> name, entries |-> entries, at |-> at,
       items |-> RssFetchFeed(name, entries, RssFetchLimit, at)] :
      name \in FeedNames, entries \in RssAnswers,
      at \in Instants \cup ServeInstants }

Init ==
    /\ now = Epoch0
    /\ db = {}
    /\ rss_feeds = << >>
    /\ file = << >>
    /\ refresh = NoRefresh
    /\ ret = NoCall

\* The call goes on suspended, returns or throws.  ret is what the step just
\* taken handed to a caller: nothing (NoCall) when the call is suspended.
Settle(r) ==
    IF r.pc = "done" THEN refresh' = NoRefresh /\ ret' = Returns(r)
    ELSE IF r.pc = "thrown"
    THEN refresh' = NoRefresh /\ ret' = Throws(r, r.from, r.error)
    ELSE refresh' = r /\ ret' = NoCall

\* refresh_cache is called: handleRefreshCache runs to its first await.
RefreshStart(source) ==
    /\ refresh.pc = "idle"
    /\ IF ~Truthy(source, "") \/ Val(source) = "hackernews"
       THEN /\ refresh' = [NewRefresh(source) EXCEPT !.pc = "hn"]
            /\ ret' = NoCall
       ELSE Settle(EnterRssLoop(NewRefresh(source), rss_feeds))
    /\ UNCHANGED <<now, db, rss_feeds, file>>

\* hnSource.fetchFeed rejects: the outer catch throws.
HnFetchFails ==
    /\ refresh.pc = "hn"
    /\ Settle([refresh EXCEPT !.pc = "thrown", !.from = "hackernews",
                              !.error = "fetch"])
    /\ UNCHANGED <<now, db, rss_feeds, file>>

\* hnSource.fetchFeed resolves; the items are saved (the write of item
\* number failAt fails, 0: none) and the RSS part starts.
HnFetchDone(answers, failAt) ==
    /\ refresh.pc = "hn"
    /\ LET items == (CHOOSE f \in HnFetched :
                          f.answers = answers /\ f.at = now).items
       IN  /\ failAt <= Len(items)
           /\ db' = Transaction(db, items, failAt)
           /\ IF failAt # 0
              THEN Settle([refresh EXCEPT !.pc = "thrown",
                                          !.from = "hackernews",
                                          !.error = "store"])
              ELSE Settle(EnterRssLoop(
                     [refresh EXCEPT !.results =
                        Append(@, Refreshed("Hacker News", Len(items)))],
                     rss_feeds))
    /\ UNCHANGED <<now, rss_feeds, file>>

\* rssSource.fetchFeed rejects for the registration the loop is at.
RssFetchFails ==
    /\ refresh.pc = "rss"
    /\ Settle(RssCatch(refresh, refresh.feeds[refresh.idx].name, "fetch"))
    /\ UNCHANGED <<now, db, rss_feeds, file>>

\* rssSource.fetchFeed resolves for the registration the loop is at; the
\* items are saved (the write of item number failAt fails, 0: none).
RssFetchDone(entries, failAt) ==
    /\ refresh.pc = "rss"
    /\ LET name == refresh.feeds[refresh.idx].name
           items == (CHOOSE f \in RssFetched :
                      f.name = name /\ f.entries = entries /\ f.at = now).items
       IN  /\ failAt <= Len(items)
           /\ db' = Transaction(db, items, failAt)
           /\ IF failAt # 0
              THEN Settle(RssCatch(refresh, name, "store"))
              ELSE Settle(NextFeed(
                     [refresh EXCEPT !.results =
                        Append(@, Refreshed(name, Len(items)))]))
    /\ UNCHANGED <<now, rss_feeds, file>>

\* add_rss_feed: addRSSFeed throws on a known url, else pushes the feed
\* onto the array and saves the configuration, which may fail.
AddRSSFeed(name, url, persists) ==
    /\ Len(rss_feeds) < MaxFeeds
    /\ IF exists(rss_feeds, url)
       THEN /\ ret' = [op |-> "add_rss_feed", name |-> name, url |-> url,
                       status |-> "throws", error |-> "duplicate"]
            /\ UNCHANGED <<rss_feeds, file, refresh>>
       ELSE LET feed == [name |-> name, url |-> url]
            IN  /\ rss_feeds' = Append(rss_feeds, feed)
                /\ refresh' = IF refresh.pc = "rss" /\ refresh.aliased
                              THEN [refresh EXCEPT !.feeds = Append(@, feed)]
                              ELSE refresh
                /\ file' = IF persists THEN rss_feeds' ELSE file
                /\ ret' = [op |-> "add_rss_feed", name |-> name, url |-> url,
                           status |-> IF persists THEN "ok" ELSE "throws",
                           error |-> IF persists THEN "" ELSE "persist"]
    /\ UNCHANGED <<now, db>>

\* remove_rss_feed: removeRSSFeed replaces the array by the filtered one,
\* and saves the configuration, which may fail, when it got shorter.
RemoveRSSFeed(name, persists) ==
    /\ rss_feeds' = WithoutName(rss_feeds, name)
    /\ refresh' = IF refresh.pc = "rss" /\ refresh.aliased
                  THEN [refresh EXCEPT !.aliased = FALSE]
                  ELSE refresh
    /\ IF Len(rss_feeds') < Len(rss_feeds)
       THEN /\ file' = IF persists THEN rss_feeds' ELSE file
            /\ ret' = [op |-> "remove_rss_feed", name |-> name,
                       status |-> IF persists THEN "ok" ELSE "throws",
                       error |-> IF persists THEN "" ELSE "persist"]
       ELSE /\ persists
            /\ file' = file
            /\ ret' = [op |-> "remove_rss_feed", name |-> name,
                       status |-> "throws", error |-> "not found"]
    /\ UNCHANGED <<now, db>>

Tick(t) ==
    /\ t > now
    /\ now' = t
    /\ UNCHANGED <<db, rss_feeds, file, refresh, ret>>

\* The configuration file is writable here, so file follows rss_feeds.
Next ==
    \/ \E source \in Selectors : RefreshStart(source)
    \/ HnFetchFails
    \/ \E answers \in HnAnswers, failAt \in 0..MaxStories :
          HnFetchDone(answers, failAt)
    \/ RssFetchFails
    \/ \E entries \in RssAnswers, failAt \in 0..MaxEntries :
          RssFetchDone(entries, failAt)
    \/ \E name \in FeedNames, url \in FeedUrls : AddRSSFeed(name, url, TRUE)
    \/ \E name \in FeedNames : RemoveRSSFeed(name, TRUE)
    \/ \E t \in Instants : Tick(t)

Spec == Init /\ [][Next]_vars

(***************************************************************************)
(* Claims on refresh_cache, under Spec.                                    *)
(***************************************************************************)
Refreshing == ret.op = "refresh_cache"

\* The lines of the summary that the loop over the registrations pushed:
\* all but the Hacker News line, which comes first when there is one.
RssLines ==
    IF ~Truthy(ret.source, "") \/ Val(ret.source) = "hackernews"
    THEN Tail(ret.results)
    ELSE ret.results

\* Line i of the loop reports the registration the loop was at: a failure
\* by name, or a count whose items (when there are any) are in the cache.
ReportsFeed(line, feed) ==
    /\ line.name = feed.name
    /\ \/ line.kind = "failed"
       \/ /\ line.kind = "refreshed"
          /\ line.count > 0 =>
               \E row \in db : row.source = "rss:" \o feed.name

\* C3: in refresh_cache the failure of one RSS registration stops nothing:
\* the call never throws from the loop over the registrations, and when it
\* returns the summary has one line per registration of the array it went
\* through, in order: a failure line naming the registration, or an
\* item-count line whose items are stored.
C3_RssFailureIsolated ==
    Refreshing =>
      /\ ret.status = "throws" => ret.from = "hackernews"
      /\ ret.status = "ok" =>
           /\ Len(RssLines) = Len(ret.feeds)
           /\ \A i \in 1..Len(ret.feeds) : ReportsFeed(RssLines[i], ret.feeds[i])

\* A refresh over two registrations has returned: the fetch of the first
\* failed, the second was fetched after it and its item is in the cache.
C3_Witness ==
    /\ Refreshing
    /\ ret.status = "ok"
    /\ Len(ret.feeds) = 2
    /\ ret.feeds[1].name # ret.feeds[2].name
    /\ RssLines[1] = Failed(ret.feeds[1].name, "fetch")
    /\ RssLines[2] = Refreshed(ret.feeds[2].name, 1)
    /\ \E row \in db : row.source = "rss:" \o ret.feeds[2].name
    /\ ~ \E row \in db : row.source = "rss:" \o ret.feeds[1].name

\* C4: a refresh of several sources (no selector, at least one registration
\* configured) does not throw because the fetch of one source failed.
C4_AsStated ==
    (Refreshing /\ ~Truthy(ret.source, "") /\ Len(rss_feeds) >= 1) =>
      ~(ret.status = "throws" /\ ret.error = "fetch")

\* C5: a refresh that returns normally has no `Failed to refresh` line made
\* of a failure of the cache store.
C5_AsStated ==
    (Refreshing /\ ret.status = "ok") =>
      \A i \in 1..Len(ret.results) :
         ~(ret.results[i].kind = "failed" /\ ret.results[i].error = "store")

(***************************************************************************)
(* index.ts: the handlers that read, and the server left running with the  *)
(* configuration it loaded at start.                                       *)
(***************************************************************************)
\* const { source, limit = 30, hours_ago } = args
DefaultFeedLimit == 30

\* What handleGetFeed(args) may return at time at.
handleGetFeed(rows, args, at) ==
    LET since == IF Truthy(args.hours_ago, 0)
                 THEN Some(at - Val(args.hours_ago) * 60 * 60 * 1000)
                 ELSE undefined
    IN  getFeedItems(rows,
          [source |-> IF Truthy(args.source, "") /\ Val(args.source) # "all"
                      THEN args.source ELSE undefined,
           limit |-> IF Has(args.limit) THEN args.limit
                     ELSE Some(DefaultFeedLimit),
           since |-> since])

\* ConfigManager.getAllSources()
configSources(feeds) ==
    <<"hackernews">> \o [i \in 1..Len(feeds) |-> "rss:" \o feeds[i].name]

\* get_feed
GetFeed(args) ==
    /\ \E value \in handleGetFeed(db, args, now) :
          ret' = [op |-> "get_feed", args |-> args, at |-> now, value |-> value]
    /\ UNCHANGED <<now, db, rss_feeds, file, refresh>>

\* search_all
SearchAll(query, limit) ==
    /\ \E value \in searchFeedItems(db, query, limit) :
          ret' = [op |-> "search_all", query |-> query, limit |-> limit,
                  value |-> value]
    /\ UNCHANGED <<now, db, rss_feeds, file, refresh>>

\* list_sources
ListSources ==
    /\ \E dbSources \in getAllSources(db) :
          ret' = [op |-> "list_sources", sources |-> configSources(rss_feeds),
                  dbSources |-> dbSources]
    /\ UNCHANGED <<now, db, rss_feeds, file, refresh>>

\* The registrations of the configuration file the server starts with.
ServeFeeds == << [name |-> "blog", url |-> "http://u1"] >>

\* What get_feed and search_all are called with.
FeedArgs ==
    { [source |-> src, limit |-> n, hours_ago |-> h] :
        src \in { undefined, Some("all"), Some("hackernews"), Some("rss:blog") },
        n \in { undefined, Some(1) },
        h \in { undefined, Some(0), Some(1), Some(2) } }
SearchQueries == { "agents", "%" }

\* loadConfig found ServeFeeds in the file.
InitServe ==
    /\ now = Epoch0
    /\ db = {}
    /\ rss_feeds = ServeFeeds
    /\ file = ServeFeeds
    /\ refresh = NoRefresh
    /\ ret = NoCall

ServeTick == \E t \in ServeInstants : Tick(t)
ServeGetFeed == \E args \in FeedArgs : GetFeed(args)
ServeRssSettles ==
    \/ RssFetchFails
    \/ \E entries \in RssAnswers, failAt \in 0..MaxEntries :
          RssFetchDone(entries, failAt)

NextServe ==
    \/ \E source \in Selectors : RefreshStart(source)
    \/ HnFetchFails
    \/ \E answers \in HnAnswers, failAt \in 0..MaxStories :
          HnFetchDone(answers, failAt)
    \/ ServeRssSettles
    \/ ServeGetFeed
    \/ \E query \in SearchQueries : SearchAll(query, undefined)
    \/ ListSources
    \/ ServeTick

\* Time passes, the client goes on asking for the feed, and the fetch of an
\* RSS feed settles (the parser has a timeout); the Hacker News fetch has
\* none, and nothing makes a client call refresh_cache.
SpecServe ==
    /\ InitServe /\ [][NextServe]_vars
    /\ WF_vars(ServeTick) /\ WF_vars(ServeGetFeed) /\ WF_vars(ServeRssSettles)

(***************************************************************************)
(* Claims on the server left running, under SpecServe.                     *)
(***************************************************************************)
\* The ids of the items the upstreams serve.
ServeIds == { "hn:" \o st.id : st \in HnStories }
            \cup { "rss:" \o ServeFeeds[1].name \o ":" \o Val(e.guid) :
                   e \in RssEntries }

\* The record of this id was cached more than 7 days ago.
Expired(id) ==
    \E row \in db :
       row.id = id /\ row.cached_at < Seconds(now) - 7 * SecondsPerDay

\* C11: a record whose cached_at has become more than 7 days old is
\* eventually removed from the cache by the server.
C11_AsStated == \A id \in ServeIds : Expired(id) ~> ~Expired(id)

(***************************************************************************)
(* Claims on add_rss_feed and remove_rss_feed, under Spec (the             *)
(* configuration file can be written).                                     *)
(***************************************************************************)
HasUrl(feeds, url) == \E i \in 1..Len(feeds) : feeds[i].url = url
HasName(feeds, name) == \E i \in 1..Len(feeds) : feeds[i].name = name

\* C12: add_rss_feed with the url of an existing registration fails with a
\* duplicate error and leaves the registrations, in memory and in the file,
\* as they were; with a new url it appends the registration and the file
\* holds the new list.
C12_AddRSSFeed ==
    [][\A name \in FeedNames, url \in FeedUrls :
         AddRSSFeed(name, url, TRUE) =>
           IF HasUrl(rss_feeds, url)
           THEN /\ ret'.status = "throws" /\ ret'.error = "duplicate"
                /\ rss_feeds' = rss_feeds
                /\ file' = file
           ELSE /\ ret'.status = "ok"
                /\ rss_feeds' = rss_feeds \o <<[name |-> name, url |-> url]>>
                /\ file' = rss_feeds']_vars

\* add_rss_feed has just refused the url of the one registration there is,
\* given under another name.
C12_Witness ==
    /\ ret.op = "add_rss_feed" /\ ret.error = "duplicate"
    /\ Len(rss_feeds) = 1
    /\ rss_feeds[1].url = ret.url /\ rss_feeds[1].name # ret.name
    /\ file = rss_feeds

\* C13: no two registrations share a name and no two share a url.
C13_AsStated ==
    \A i, j \in 1..Len(rss_feeds) :
       i # j => /\ rss_feeds[i].name # rss_feeds[j].name
                /\ rss_feeds[i].url # rss_feeds[j].url

\* C14: remove_rss_feed(name) removes the registrations of that name and no
\* other and succeeds iff there was one; when there was none the
\* registrations are unchanged, nothing is written and the call fails with
\* `not found`.
C14_RemoveRSSFeed ==
    [][\A name \in FeedNames :
         RemoveRSSFeed(name, TRUE) =>
           /\ rss_feeds' = SelectSeq(rss_feeds, LAMBDA f : f.name # name)
           /\ ret'.status = "ok" <=> HasName(rss_feeds, name)
           /\ IF HasName(rss_feeds, name)
              THEN file' = rss_feeds'
              ELSE /\ rss_feeds' = rss_feeds
                   /\ file' = file
                   /\ ret'.status = "throws" /\ ret'.error = "not found"]_vars

\* remove_rss_feed has just removed one of two registrations, and the other
\* is still there.
C14_Witness ==
    /\ ret.op = "remove_rss_feed" /\ ret.status = "ok"
    /\ Len(rss_feeds) = 1
    /\ rss_feeds[1].name # ret.name
    /\ file = rss_feeds

(***************************************************************************)
(* Further claims on FeedDatabase, under SpecDb.                           *)
(***************************************************************************)
\* The record is one write as a whole, not fields of several.
Whole(row) == \E item \in DbItems : row = RowOf(item)

\* C15: saveFeedItems is all or nothing: after a batch that failed the
\* cache is as before the call, after one that succeeded every id of the
\* batch holds its last write and the other records are as before; every
\* record is one write as a whole, and getFeedItems returns stored records
\* only: a reader between two calls sees no part of a batch.
C15_BatchIsAtomic ==
    /\ \A row \in db : Whole(row)
    /\ (ret.op = "saveFeedItems" /\ ret.status = "throws") => db = ret.before
    /\ (ret.op = "saveFeedItems" /\ ret.status = "ok") =>
          LET ids == { ret.items[i].id : i \in 1..Len(ret.items) }
          IN  /\ \A id \in ids :
                    RowsWithId(db, id) = { RowOf(LastWrite(ret.items, id)) }
              /\ { r \in db : r.id \notin ids }
                   = { r \in ret.before : r.id \notin ids }
    /\ ret.op = "getFeedItems" =>
          \A i \in 1..Len(ret.value) :
             \E row \in db : ret.value[i] = ItemOf(row)

\* A batch of two items of different ids has failed and neither is stored.
C15_Witness ==
    /\ ret.op = "saveFeedItems" /\ ret.status = "throws"
    /\ Len(ret.items) = 2
    /\ ret.items[1].id # ret.items[2].id
    /\ \A i \in 1..2 : RowsWithId(db, ret.items[i].id) = {}

\* C16: for every limit supplied, 0 included, getFeedItems returns at most
\* limit items.
C16_AsStated ==
    (ret.op = "getFeedItems" /\ Has(ret.options.limit)) =>
       Len(ret.value) <= Val(ret.options.limit)

(***************************************************************************)
(* Claims on get_feed, under SpecServe.                                    *)
(***************************************************************************)
\* C17: get_feed with hours_ago = N, for every N >= 0 supplied (0
\* included), returns only items published at or after now - N hours.
C17_AsStated ==
    (ret.op = "get_feed" /\ Has(ret.args.hours_ago)
                         /\ Val(ret.args.hours_ago) >= 0) =>
       \A i \in 1..Len(ret.value) :
          ret.value[i].published_at
            >= ret.at - Val(ret.args.hours_ago) * MsPerHour

\* The text holds q as it is written, letters of either case alike.
Contains(column, q) ==
    Has(column) /\ includes(toLowerCase(Val(column)), toLowerCase(q))

\* C18: searchFeedItems(q) returns all and only the stored items whose
\* title or content contains q as a literal substring, also for a q that
\* holds % or _.
C18_AsStated ==
    (ret.op = "searchFeedItems" /\ ~Has(ret.limit)) =>
       { ret.value[i].id : i \in 1..Len(ret.value) }
         = { r.id : r \in { x \in db : \/ Contains(Some(x.title), ret.query)
                                       \/ Contains(x.content, ret.query) } }

(***************************************************************************)
(* Claims on what refresh_cache fetches, under Spec.                       *)
(***************************************************************************)
NoSelector(source) == ~Truthy(source, "")

\* The adapter the suspended call waits for is one its selector covers.
AwaitsSelected ==
    /\ refresh.pc = "hn" =>
          NoSelector(refresh.source) \/ Val(refresh.source) = "hackernews"
    /\ refresh.pc = "rss" =>
          /\ NoSelector(refresh.source)
               \/ "rss:" \o refresh.feeds[refresh.idx].name = Val(refresh.source)
          /\ refresh.aliased => refresh.feeds = rss_feeds

\* The summary of a call that returned has the lines of its selector.
SummaryOfSelected ==
    (Refreshing /\ ret.status = "ok") =>
       IF NoSelector(ret.source)
       THEN /\ Len(ret.results) = 1 + Len(ret.feeds)
            /\ ret.results[1].name = "Hacker News"
            /\ ret.results[1].kind = "refreshed"
       ELSE IF Val(ret.source) = "hackernews"
       THEN /\ ret.feeds = << >>
            /\ Len(ret.results) = 1
            /\ ret.results[1].name = "Hacker News"
            /\ ret.results[1].kind = "refreshed"
       ELSE /\ Len(ret.results) = Len(ret.feeds)
            /\ \A i \in 1..Len(ret.feeds) :
                  /\ "rss:" \o ret.feeds[i].name = Val(ret.source)
                  /\ ret.results[i].name = ret.feeds[i].name

\* A step writes records of the source the call waits for only, and adds
\* at most one line to the summary.
WritesSelected ==
    /\ \A row \in db' \ db :
          \/ refresh.pc = "hn" /\ row.source = "hackernews"
          \/ refresh.pc = "rss"
               /\ row.source = "rss:" \o refresh.feeds[refresh.idx].name
    /\ db' # db =>
          LET results == IF refresh'.pc = "idle" THEN ret'.results
                         ELSE refresh'.results
          IN  /\ Len(results) = Len(refresh.results) + 1
              /\ results[Len(results)].kind = "refreshed"

\* C19: refresh_cache fetches Hacker News and every registration without a
\* selector, Hacker News alone with `hackernews` (no RSS record is written),
\* the registrations of that name alone with `rss:<name>` (the Hacker News
\* adapter is not called); a source that succeeds is written as one batch
\* and gets one line of the summary.
C19_FetchesSelected ==
    /\ [](AwaitsSelected /\ SummaryOfSelected)
    /\ [][WritesSelected]_vars

\* refresh_cache `rss:blog` has returned with two registrations configured:
\* blog alone was fetched and stored.
C19_Witness ==
    /\ Refreshing /\ ret.status = "ok"
    /\ ret.source = Some("rss:blog")
    /\ Len(rss_feeds) = 2 /\ rss_feeds[1].name # rss_feeds[2].name
    /\ ret.results = << Refreshed("blog", 1) >>
    /\ { row.source : row \in db } = { "rss:blog" }

\* C20: while a refresh of all sources waits for a fetch, the fetch of
\* every source it covers has been started.
C20_AsStated ==
    (refresh.pc \in { "hn", "rss" } /\ NoSelector(refresh.source)) =>
       Started(refresh)
         = { "hackernews" }
           \cup { "rss:" \o rss_feeds[i].name : i \in 1..Len(rss_feeds) }

(***************************************************************************)
(* Claims on the end of refresh_cache, under SpecServe.                    *)
(***************************************************************************)
\* C21: refresh_cache always terminates: a call that is suspended on a
\* fetch eventually returns or throws.
C21_AsStated == (refresh.pc # "idle") ~> (refresh.pc = "idle")


(* Claims on re-scoring and on the range of the recency sub-score, under   *)
(* SpecRank: ret holds the score computed at ret.at, now is a later time.  *)
\* C22: re-scoring the same item at a time t2 >= t1 gives the same keyword,
\* engagement and source sub-scores and a recency sub-score not greater than
\* at t1 (a score that stays above 0 falls by exactly the fall of its recency
\* sub-score), so calculateRankScore never increases as time advances and
\* gives the same score again at the same time.
C22_RescoreNeverIncreases ==
    Scored =>
        LET item == ret.item
            again == calculateRankScore(item, now)
            recencyThen == calculateRecencyScore(item, ret.at)
            recencyNow == calculateRecencyScore(item, now)
        IN  /\ now >= ret.at
            /\ recencyNow <= recencyThen
            /\ again <= ret.value
            /\ (again > 0) => ret.value - again = recencyThen - recencyNow
            /\ (now = ret.at) => again = ret.value

\* An item scored earlier would score strictly less now, by its recency alone.
C22_Witness ==
    /\ Scored
    /\ now > ret.at
    /\ calculateRecencyScore(ret.item, now)
         < calculateRecencyScore(ret.item, ret.at)
    /\ calculateRankScore(ret.item, now) < ret.value

\* C27 as stated: the recency sub-score of every scored item lies between 0
\* and 100 inclusive, also when published_at is later than the scoring time.
C27_AsStated ==
    Scored =>
        /\ calculateRecencyScore(ret.item, ret.at) >= 0
        /\ calculateRecencyScore(ret.item, ret.at) <= Points(100)

(***************************************************************************)
(* Claims on selectors and on the registrations a refresh loops over,      *)
(* under Spec.                                                             *)
(***************************************************************************)
\* C24 as stated: refresh_cache called with a selector that names no known
\* source (not 'all', not 'hackernews', not 'rss:' and the name of a
\* configured registration) ends in an error raised to the caller.
C24_AsStated ==
    ( /\ Refreshing
      /\ Truthy(ret.source, "")
      /\ Val(ret.source) \notin { "all", "hackernews" }
      /\ Matching(rss_feeds, Val(ret.source)) = << >>
      /\ ret.feeds = << >> )
    => ret.status = "throws"

\* C25 as stated: the registrations a refresh of all sources loops over are
\* those configured when it started; no step taken while it is suspended
\* changes them.
C25_AsStated ==
    [][ ( /\ refresh.pc = "rss"
          /\ NoSelector(refresh.source)
          /\ refresh'.pc = "rss" )
        => refresh'.feeds = refresh.feeds ]_vars

(***************************************************************************)
(* The configuration tools alone, with a configuration file that may not   *)
(* be writable: saveConfig rethrows what writeFileSync throws.             *)
(***************************************************************************)
NextConfig ==
    \/ \E name \in FeedNames, url \in FeedUrls, persists \in BOOLEAN :
          AddRSSFeed(name, url, persists)
    \/ \E name \in FeedNames, persists \in BOOLEAN :
          RemoveRSSFeed(name, persists)
    \/ ListSources

SpecConfig == Init /\ [][NextConfig]_vars

\* C26 as stated: after an add_rss_feed or remove_rss_feed that failed because
\* the configuration could not be persisted, the registrations in memory
\* are those last persisted: no change is kept that was not written.
C26_AsStated ==
    ( /\ ret.op \in { "add_rss_feed", "remove_rss_feed" }
      /\ ret.status = "throws"
      /\ ret.error = "persist" )
    => rss_feeds = file

(***************************************************************************)
(* The adapters writing to one cache: each step fetches one item through   *)
(* an adapter and saves the batch, as handleRefreshCache does with the     *)
(* result of a fetch.                                                      *)
(***************************************************************************)
\* The FeedItem fetchBestStories makes of one story.
HnBestItem(story, at) ==
    LET unscored == [HnItem(story, at) EXCEPT !.source = "hackernews:best",
                                              !.rank_score = undefined]
    IN  [unscored EXCEPT !.rank_score = Some(calculateRankScore(unscored, at))]

\* The FeedItem fetchNewStories makes of one story.
HnNewItem(story, at) ==
    LET unscored == [HnItem(story, at) EXCEPT !.source = "hackernews:new",
                                              !.rank_score = undefined]
    IN  [unscored EXCEPT !.rank_score = Some(calculateRankScore(unscored, at))]

\* Registration names: add_rss_feed takes any string.
AdapterNames == { "a", "a:b", "blog" }

\* Entries of a feed, told apart by their guid.
AdapterEntries ==
    { [NoEntry EXCEPT !.guid = Some(g), !.title = Some("Daily"),
                      !.pubDate = Some(Epoch0 - MsPerHour)] :
      g \in { "c", "b:c" } }

\* What a step hands on: the items it saved and the cache as it was.
AdapterSaved(items) == [op |-> "fetch and save", items |-> items, before |-> db]

\* new RSSFeedSource(name, url).fetchFeed(50), then saveFeedItems.
AdapterRss(name, entry) ==
    LET items == RssFetchFeed(name, <<entry>>, RssFetchLimit, now)
    IN  /\ db' = Transaction(db, items, 0)
        /\ ret' = AdapterSaved(items)
        /\ UNCHANGED <<now, rss_feeds, file, refresh>>

\* hnSource.fetchFeed(30), then saveFeedItems.
AdapterHnTop(story) ==
    LET items == HnFetchFeed(<<Some(story)>>, HnFetchLimit, now)
    IN  /\ db' = Transaction(db, items, 0)
        /\ ret' = AdapterSaved(items)
        /\ UNCHANGED <<now, rss_feeds, file, refresh>>

\* hnSource.fetchBestStories(30), then saveFeedItems.
AdapterHnBest(story) ==
    LET items == <<HnBestItem(story, now)>>
    IN  /\ db' = Transaction(db, items, 0)
        /\ ret' = AdapterSaved(items)
        /\ UNCHANGED <<now, rss_feeds, file, refresh>>

\* hnSource.fetchNewStories(30), then saveFeedItems.
AdapterHnNew(story) ==
    LET items == <<HnNewItem(story, now)>>
    IN  /\ db' = Transaction(db, items, 0)
        /\ ret' = AdapterSaved(items)
        /\ UNCHANGED <<now, rss_feeds, file, refresh>>

NextAdapters ==
    \/ \E name \in AdapterNames, entry \in AdapterEntries : AdapterRss(name, entry)
    \/ \E story \in HnStories : AdapterHnTop(story)
    \/ \E story \in HnStories : AdapterHnBest(story)
    \/ \E story \in HnStories : AdapterHnNew(story)

SpecAdapters == Init /\ [][NextAdapters]_vars

\* C23 as stated: items of different source tags never share an id, so
\* saving the items of one source never replaces a record of another source.
C23_AsStated ==
    (ret.op = "fetch and save") =>
        \A i \in 1..Len(ret.items) : \A row \in ret.before :
            row.id = ret.items[i].id => row.source = ret.items[i].source

====
